---------------------------- MODULE Spec2Model ----------------------------
(***************************************************************************)
(* Startup Curator Agent (src/app.py): the prompt builder, the response    *)
(* normalizer, the card renderer and the generate flow of main(), with the *)
(* process environment shared by the sessions the process serves.          *)
(*                                                                         *)
(* Python values are tagged records: None, bool, number, str, list, dict.  *)
(* A str is a sequence of symbols; a symbol is one character, or a run of  *)
(* letters the code never looks into (a word such as "name" or "json").    *)
(***************************************************************************)
EXTENDS Integers, Sequences, FiniteSets, TLC

VARIABLES
    text,       \* normalizer: the raw response text handed to parse_json_response
    parsed,     \* normalizer: what parse_json_response did with it
    entry,      \* renderer: the decoded StartupEntry handed to render_startup_card
    card,       \* renderer: what render_startup_card did with it
    form,       \* prompt builder: (profile, prefs, provided_companies, top_n)
    prompt,     \* prompt builder: what build_user_prompt returned
    environ,    \* flow: os.environ["OPENAI_API_KEY"], one per process
    sess        \* flow: per session, the script run in progress

vars == <<text, parsed, entry, card, form, prompt, environ, sess>>

-----------------------------------------------------------------------------
(* Bounds of the model.                                                    *)

MaxGarbage == 3     \* longest arbitrary (non-generated) response text
MaxRuns == 1        \* script runs per session

-----------------------------------------------------------------------------
(* Symbols.                                                                *)

BT == "BACKTICK"   \* the backtick character
LF == "\n"
SP == " "
LS == "U+2028"      \* LINE SEPARATOR: one non-ASCII character
QT == "\""
BS == "\\"
Fence == <<BT, BT, BT>>

Digits == <<"0", "1", "2", "3", "4", "5", "6", "7", "8", "9">>
IsDigit(c) == \E i \in 1..10 : Digits[i] = c
DigitVal(c) == (CHOOSE i \in 1..10 : Digits[i] = c) - 1

PySpace == {SP, LF, LS}         \* str.isspace()
PyLineBreak == {LF, LS}         \* the boundaries str.splitlines() splits at
JsonSpace == {SP, LF}           \* the whitespace json.loads skips
JsonControl == {LF}             \* characters json.loads refuses raw inside a string

-----------------------------------------------------------------------------
(* Python values.                                                          *)

PyNone == [t |-> "null"]
PyBool(b) == [t |-> "bool", b |-> b]
PyStr(s) == [t |-> "str", s |-> s]
PyList(l) == [t |-> "list", l |-> l]
PyDict(o) == [t |-> "obj", o |-> o]
\* m * 10^-k; isf: a float rather than an int; k > 0 only when m % 10 # 0
PyNum(isf, m, k) == [t |-> "num", isf |-> isf, m |-> m, k |-> k]
PyInt(n) == PyNum(FALSE, n, 0)
EmptyDict == PyDict(<<>>)
EmptyList == PyList(<<>>)
W(w) == PyStr(<<w>>)            \* the str made of one word

RECURSIVE Pow10(_)
Pow10(k) == IF k = 0 THEN 1 ELSE 10 * Pow10(k - 1)

\* bool(v)
Truthy(v) ==
    CASE v.t = "null" -> FALSE
      [] v.t = "bool" -> v.b
      [] v.t = "num"  -> v.m # 0
      [] v.t = "str"  -> Len(v.s) > 0
      [] v.t = "list" -> Len(v.l) > 0
      [] v.t = "obj"  -> DOMAIN v.o # {}

\* a or b
Or(a, b) == IF Truthy(a) THEN a ELSE b

\* d.get(k) of a dict d
Get(d, k) == IF k \in DOMAIN d.o THEN d.o[k] ELSE PyNone

\* A computation that may raise: the value, or the exception raised.
Ret(v) == [raised |-> FALSE, v |-> v]
Raise(e) == [raised |-> TRUE, e |-> e]

-----------------------------------------------------------------------------
(* str methods.                                                            *)

\* s.strip(): what lies between the first and the last character that is no space
Strip(s) ==
    LET kept == {i \in 1..Len(s) : s[i] \notin PySpace}
    IN  IF kept = {} THEN <<>>
        ELSE SubSeq(s, CHOOSE i \in kept : \A j \in kept : i <= j,
                       CHOOSE i \in kept : \A j \in kept : i >= j)

\* s.startswith(p)
StartsWith(s, p) == Len(s) >= Len(p) /\ SubSeq(s, 1, Len(p)) = p

\* s.splitlines(): a line starts at 1 and after every line break, and ends before
\* the next one; a line break that ends the str starts no line
SplitLines(s) ==
    LET breaks == {i \in 1..Len(s) : s[i] \in PyLineBreak}
        starts == ({1} \cup {b + 1 : b \in breaks}) \ {Len(s) + 1}
        nth(n) == CHOOSE a \in starts : Cardinality({x \in starts : x < a}) = n - 1
        stop(a) == IF \E b \in breaks : b >= a
                   THEN (CHOOSE b \in breaks : b >= a /\ \A c \in breaks : c >= a => b <= c) - 1
                   ELSE Len(s)
    IN  [n \in 1..Cardinality(starts) |-> SubSeq(s, nth(n), stop(nth(n)))]

\* sep.join(lines)
RECURSIVE Join(_, _)
Join(sep, lines) ==
    IF Len(lines) = 0 THEN <<>>
    ELSE IF Len(lines) = 1 THEN lines[1]
    ELSE lines[1] \o sep \o Join(sep, Tail(lines))

-----------------------------------------------------------------------------
(* clean_json_text.                                                        *)

JoinLines(lines) == Join(<<LF>>, lines)

FencedBody(lines) == JoinLines(SubSeq(lines, 2, Len(lines) - 1))

CleanStr(s0) ==
    LET s == Strip(s0)
        lines == SplitLines(s)
        s1 == IF StartsWith(s, Fence)
                 /\ Len(lines) >= 2
                 /\ StartsWith(Strip(lines[Len(lines)]), Fence)
              THEN FencedBody(lines)
              ELSE s
    IN Strip(s1)

\* text.strip() of a value that is no str raises AttributeError
clean_json_text(v) ==
    IF v.t = "str" THEN Ret(CleanStr(v.s)) ELSE Raise("AttributeError")

-----------------------------------------------------------------------------
(* json.loads: the decoder of the standard library, in its default strict  *)
(* mode, over the symbols of the model.  A result is [ok, v, p]: whether a *)
(* value was read, the value, and the position after it.                   *)

Fail == [ok |-> FALSE]
Ok(v, p) == [ok |-> TRUE, v |-> v, p |-> p]

At(s, p) == IF p >= 1 /\ p <= Len(s) THEN s[p] ELSE "EOF"

RECURSIVE SkipWs(_, _)
SkipWs(s, p) == IF At(s, p) \in JsonSpace THEN SkipWs(s, p + 1) ELSE p

\* the character a \uXXXX escape names
UnicodeChar(hex) == IF hex = <<"2", "0", "2", "8">> THEN LS ELSE "U+other"

\* the body of a string literal, from the position after its opening quote
RECURSIVE ParseString(_, _, _)
ParseString(s, p, acc) ==
    LET c == At(s, p)
        e == At(s, p + 1)
    IN  CASE c = "EOF" -> Fail
          [] c = QT -> Ok(PyStr(acc), p + 1)
          [] c = BS ->
                CASE e = QT -> ParseString(s, p + 2, Append(acc, QT))
                  [] e = BS -> ParseString(s, p + 2, Append(acc, BS))
                  [] e = "n" -> ParseString(s, p + 2, Append(acc, LF))
                  [] e = "u" ->
                        IF \A i \in 2..5 : IsDigit(At(s, p + i))
                        THEN ParseString(s, p + 6,
                                 Append(acc, UnicodeChar(SubSeq(s, p + 2, p + 5))))
                        ELSE Fail
                  [] OTHER -> Fail
          [] c \in JsonControl -> Fail
          [] OTHER -> ParseString(s, p + 1, Append(acc, c))

\* a run of digits from p: its value, its length and the position after it
RECURSIVE ReadDigits(_, _, _, _)
ReadDigits(s, p, val, n) ==
    IF IsDigit(At(s, p))
    THEN ReadDigits(s, p + 1, 10 * val + DigitVal(s[p]), n + 1)
    ELSE [val |-> val, n |-> n, p |-> p]

\* m * 10^-k without trailing zeros in the fraction
RECURSIVE Normal(_, _, _)
Normal(isf, m, k) ==
    IF k > 0 /\ m % 10 = 0 THEN Normal(isf, m \div 10, k - 1) ELSE PyNum(isf, m, k)

\* -?(0|[1-9][0-9]*)(\.[0-9]+)?
ParseNumber(s, p) ==
    LET neg == At(s, p) = "-"
        q == IF neg THEN p + 1 ELSE p
        ip == IF At(s, q) = "0" THEN [val |-> 0, n |-> 1, p |-> q + 1]
              ELSE ReadDigits(s, q, 0, 0)
        hasf == At(s, ip.p) = "." /\ IsDigit(At(s, ip.p + 1))
        fp == ReadDigits(s, ip.p + 1, 0, 0)
        sign == IF neg THEN -1 ELSE 1
    IN  IF ip.n = 0 THEN Fail
        ELSE IF hasf
        THEN Ok(Normal(TRUE, sign * (ip.val * Pow10(fp.n) + fp.val), fp.n), fp.p)
        ELSE Ok(PyNum(FALSE, sign * ip.val, 0), ip.p)

Put(o, k, v) == [x \in DOMAIN o \cup {k} |-> IF x = k THEN v ELSE o[x]]

RECURSIVE ParseValue(_, _)
RECURSIVE ParseItems(_, _, _)
RECURSIVE ParseMembers(_, _, _)

\* scan_once: the value that starts at p
ParseValue(s, p) ==
    LET c == At(s, p)
    IN  CASE c = QT -> ParseString(s, p + 1, <<>>)
          [] c = "{" ->
                IF At(s, SkipWs(s, p + 1)) = "}"
                THEN Ok(EmptyDict, SkipWs(s, p + 1) + 1)
                ELSE ParseMembers(s, SkipWs(s, p + 1), <<>>)
          [] c = "[" ->
                IF At(s, SkipWs(s, p + 1)) = "]"
                THEN Ok(EmptyList, SkipWs(s, p + 1) + 1)
                ELSE ParseItems(s, SkipWs(s, p + 1), <<>>)
          [] c = "null" -> Ok(PyNone, p + 1)
          [] c = "true" -> Ok(PyBool(TRUE), p + 1)
          [] c = "false" -> Ok(PyBool(FALSE), p + 1)
          [] c = "-" \/ IsDigit(c) -> ParseNumber(s, p)
          [] OTHER -> Fail

\* the items of an array, from the first item at p
ParseItems(s, p, acc) ==
    LET r == ParseValue(s, p)
        q == SkipWs(s, r.p)
    IN  IF ~r.ok THEN Fail
        ELSE CASE At(s, q) = "]" -> Ok(PyList(Append(acc, r.v)), q + 1)
               [] At(s, q) = "," -> ParseItems(s, SkipWs(s, q + 1), Append(acc, r.v))
               [] OTHER -> Fail

\* the members of an object, from the first key at p; a repeated key keeps the last value
ParseMembers(s, p, o) ==
    LET k == ParseString(s, p + 1, <<>>)
        c == SkipWs(s, k.p)
        r == ParseValue(s, SkipWs(s, c + 1))
        q == SkipWs(s, r.p)
    IN  IF At(s, p) # QT THEN Fail
        ELSE IF ~k.ok THEN Fail
        ELSE IF At(s, c) # ":" THEN Fail
        ELSE IF ~r.ok THEN Fail
        ELSE CASE At(s, q) = "}" -> Ok(PyDict(Put(o, k.v.s, r.v)), q + 1)
               [] At(s, q) = "," -> ParseMembers(s, SkipWs(s, q + 1), Put(o, k.v.s, r.v))
               [] OTHER -> Fail

\* json.loads(s): one value, surrounded by nothing but whitespace
json_loads(s) ==
    LET r == ParseValue(s, SkipWs(s, 1))
    IN  IF r.ok /\ SkipWs(s, r.p) = Len(s) + 1
        THEN Ret(r.v)
        ELSE Raise("JSONDecodeError")

-----------------------------------------------------------------------------
(* parse_json_response.                                                    *)

\* lines 141-145 without the type of the decoded value looked at
LoadsCleaned(v) ==
    LET c == clean_json_text(v)
    IN  IF c.raised THEN c ELSE json_loads(c.v)

\* the body of the try, with no except around it
parse_json_response_uncaught(v) == LoadsCleaned(v)

\* except Exception: return None
parse_json_response(v) ==
    LET r == LoadsCleaned(v)
    IN  IF r.raised THEN Ret(PyNone) ELSE r

-----------------------------------------------------------------------------
(* The minified JSON encoding of a value (spec section 8, the round trip): *)
(* no whitespace between tokens.  ascii: every non-ASCII character is      *)
(* written as a \uXXXX escape, as json.dumps does by default; otherwise it *)
(* is written raw, as RFC 8259 allows.  Control characters, the quote and  *)
(* the backslash are always escaped.                                       *)

EscapeChar(c, ascii) ==
    CASE c = QT -> <<BS, QT>>
      [] c = BS -> <<BS, BS>>
      [] c = LF -> <<BS, "n">>
      [] c = LS /\ ascii -> <<BS, "u", "2", "0", "2", "8">>
      [] OTHER -> <<c>>

RECURSIVE EscapeAll(_, _)
EscapeAll(s, ascii) ==
    IF s = <<>> THEN <<>> ELSE EscapeChar(Head(s), ascii) \o EscapeAll(Tail(s), ascii)

EncodeStr(s, ascii) == <<QT>> \o EscapeAll(s, ascii) \o <<QT>>

\* the decimal digits of n >= 0, at least width of them
RECURSIVE DigitsOf(_, _)
DigitsOf(n, width) ==
    IF n < 10 /\ width <= 1 THEN <<Digits[n + 1]>>
    ELSE Append(DigitsOf(n \div 10, width - 1), Digits[(n % 10) + 1])

Abs(n) == IF n < 0 THEN -n ELSE n

EncodeNum(v) ==
    LET a == Abs(v.m)
        sign == IF v.m < 0 THEN <<"-">> ELSE <<>>
    IN  IF ~v.isf THEN sign \o DigitsOf(a, 1)
        ELSE sign \o DigitsOf(a \div Pow10(v.k), 1) \o <<".">>
                  \o (IF v.k = 0 THEN <<"0">> ELSE DigitsOf(a % Pow10(v.k), v.k))

\* the elements of a finite set, in some order
RECURSIVE SeqOf(_)
SeqOf(S) == IF S = {} THEN <<>> ELSE LET x == CHOOSE y \in S : TRUE IN <<x>> \o SeqOf(S \ {x})

RECURSIVE Minify(_, _)
RECURSIVE MinifyAll(_, _, _)

Minify(v, ascii) ==
    CASE v.t = "null" -> <<"null">>
      [] v.t = "bool" -> IF v.b THEN <<"true">> ELSE <<"false">>
      [] v.t = "num" -> EncodeNum(v)
      [] v.t = "str" -> EncodeStr(v.s, ascii)
      [] v.t = "list" -> <<"[">> \o MinifyAll(v, SeqOf(DOMAIN v.l), ascii) \o <<"]">>
      [] v.t = "obj" -> <<"{">> \o MinifyAll(v, SeqOf(DOMAIN v.o), ascii) \o <<"}">>

\* the items of a list, or the members of a dict, at the keys ks
MinifyAll(v, ks, ascii) ==
    IF ks = <<>> THEN <<>>
    ELSE (IF v.t = "obj"
          THEN EncodeStr(Head(ks), ascii) \o <<":">> \o Minify(v.o[Head(ks)], ascii)
          ELSE Minify(v.l[Head(ks)], ascii))
         \o (IF Len(ks) > 1 THEN <<",">> ELSE <<>>)
         \o MinifyAll(v, Tail(ks), ascii)

\* the text wrapped in one fenced block: the opening fence line with its
\* language tag (possibly none), the text, the closing fence line
Fenced(tag, s) == Fence \o tag \o <<LF>> \o s \o <<LF>> \o Fence

-----------------------------------------------------------------------------
(* The response texts the normalizer is run on.                            *)

Unused == "unused"      \* the value of a variable the specification leaves alone

\* a dict with the given keys
Dict1(k1, v1) == PyDict([k \in {<<k1>>} |-> v1])
Dict2(k1, v1, k2, v2) == PyDict([k \in {<<k1>>, <<k2>>} |-> IF k = <<k1>> THEN v1 ELSE v2])

\* all sequences over S of length at most n
RECURSIVE SeqsUpTo(_, _)
SeqsUpTo(S, n) ==
    IF n = 0 THEN {<<>>}
    ELSE LET shorter == SeqsUpTo(S, n - 1)
         IN  shorter \cup {Append(q, x) : q \in shorter, x \in S}

StrPool ==
    { <<>>, <<"a">>, <<SP>>, <<"a", LS, "b">>, <<"a", LF, "b">>, <<QT>>, <<BS, "n">>,
      <<BT, BT, BT>> }

\* -0.5, 0.0, 0.73, 1.0, 2.0 as floats; 0, 1, -3 and 12 as ints
NumPool ==
    { PyNum(TRUE, -5, 1), PyNum(TRUE, 0, 0), PyNum(TRUE, 73, 2), PyNum(TRUE, 1, 0),
      PyNum(TRUE, 2, 0), PyInt(0), PyInt(1), PyInt(-3), PyInt(12) }

NormEntries ==
    {EmptyDict}
    \cup {Dict1("name", PyStr(x)) : x \in StrPool}
    \cup {Dict1("confidence", n) : n \in NumPool}
    \cup {Dict2("name", W("a"), "founders", PyList(<<Dict1("name", PyStr(x))>>)) :
            x \in {<<"b">>, <<"b", LS>>}}
    \cup {Dict2("suggested_roles", PyList(<<W("a"), W("b")>>), "website", PyNone)}

MaxStartups == 2    \* longest startup list of a generated document

\* the CurationResult documents: JSON objects
NormDocs ==
    {EmptyDict}
    \cup {Dict1("notes", PyStr(x)) : x \in StrPool}
    \cup {Dict1("startups", PyList(l)) : l \in SeqsUpTo(NormEntries, MaxStartups)}
    \cup {Dict2("query_summary", PyStr(x), "next_actions", PyList(<<PyStr(x), W("b")>>)) :
            x \in StrPool}

\* JSON values that are no object
NormScalars ==
    {PyNone, PyBool(TRUE), PyBool(FALSE), EmptyList, PyList(<<PyInt(1)>>),
     PyList(<<EmptyDict>>)}
    \cup {PyStr(x) : x \in StrPool} \cup NumPool

GarbageAlphabet == {"{", "}", "[", "]", QT, "1", "null", LF, "x", ","}

WrapKinds == {"bare", "fence", "fence_tag", "padded", "unclosed", "twice"}
FencedOnce == {"bare", "fence", "fence_tag"}

Wrap(kind, s) ==
    CASE kind = "bare" -> s
      [] kind = "fence" -> Fenced(<<>>, s)
      [] kind = "fence_tag" -> Fenced(<<"json">>, s)
      [] kind = "padded" -> <<LF, SP>> \o Fenced(<<"json">>, <<SP>> \o s \o <<SP>>) \o <<SP, LF>>
      [] kind = "unclosed" -> Fence \o <<"json", LF>> \o s
      [] kind = "twice" -> Fenced(<<>>, Fenced(<<>>, s))

\* a response: where it comes from, the value it encodes (if any), and the text
Response(src, v, ascii, kind, raw) ==
    [src |-> src, v |-> v, ascii |-> ascii, wrap |-> kind, raw |-> raw]

NormInputs ==
    {Response("doc", d, a, k, PyStr(Wrap(k, Minify(d, a)))) :
        d \in NormDocs, a \in BOOLEAN, k \in WrapKinds}
    \cup {Response("value", d, a, k, PyStr(Wrap(k, Minify(d, a)))) :
        d \in NormScalars, a \in BOOLEAN, k \in FencedOnce}
    \cup {Response("garbage", PyNone, FALSE, k, PyStr(Wrap(k, g))) :
        g \in SeqsUpTo(GarbageAlphabet, MaxGarbage), k \in {"bare", "fence_tag"}}
    \cup {Response("none", PyNone, FALSE, "bare", PyNone)}

NotRun == [done |-> FALSE]
Done(r) == [done |-> TRUE, r |-> r]

InitNorm ==
    /\ text \in NormInputs
    /\ parsed = NotRun
    /\ entry = Unused /\ card = Unused /\ form = Unused /\ prompt = Unused
    /\ environ = Unused /\ sess = Unused

\* data = parse_json_response(raw_text)
NormParse ==
    /\ ~parsed.done
    /\ parsed' = Done(parse_json_response(text.raw))
    /\ UNCHANGED <<text, entry, card, form, prompt, environ, sess>>

NextNorm == NormParse

SpecNorm == InitNorm /\ [][NextNorm]_vars

-----------------------------------------------------------------------------
(* What a run shows: the Streamlit calls made, in order.  A piece of code  *)
(* yields the calls it made and whether it raised (the calls made before   *)
(* the exception stay on the page).                                        *)

Call(w, args) == [w |-> w, a |-> args]
Shown(calls) == [raised |-> FALSE, out |-> calls]
Crashed(calls, e) == [raised |-> TRUE, out |-> calls, e |-> e]

\* a; b
Then(a, b) ==
    IF a.raised THEN a
    ELSE IF b.raised THEN Crashed(a.out \o b.out, b.e)
    ELSE Shown(a.out \o b.out)

RECURSIVE ThenAll(_)
ThenAll(rs) == IF rs = <<>> THEN Shown(<<>>) ELSE Then(Head(rs), ThenAll(Tail(rs)))

\* f"{v}": a str as it is; any other value as the text Python prints for it,
\* which the model does not spell out
Fmt(v) == IF v.t = "str" THEN v.s ELSE <<"<", v.t, ">">>

\* iter(v): the items of a list, the characters of a str, the keys of a dict;
\* nothing else here is iterable
Iter(v) ==
    CASE v.t = "list" -> Ret(v.l)
      [] v.t = "str" -> Ret([i \in 1..Len(v.s) |-> PyStr(<<v.s[i]>>)])
      [] v.t = "obj" -> Ret([i \in 1..Len(SeqOf(DOMAIN v.o)) |-> PyStr(SeqOf(DOMAIN v.o)[i])])
      [] OTHER -> Raise("TypeError")

\* the items a for loop over v visits before it ends or raises
ItemsOf(v) == IF Iter(v).raised THEN <<>> ELSE Iter(v).v

K(w) == <<w>>       \* the key or literal str made of one word

\* numbers compare by value; True is 1 and False is 0
NumM(v) == IF v.t = "bool" THEN (IF v.b THEN 1 ELSE 0) ELSE v.m
NumK(v) == IF v.t = "bool" THEN 0 ELSE v.k
Less(a, b) == NumM(a) * Pow10(NumK(b)) < NumM(b) * Pow10(NumK(a))
PyMax(a, b) == IF Less(a, b) THEN b ELSE a      \* max(a, b): a unless b > a
PyMin(a, b) == IF Less(b, a) THEN b ELSE a      \* min(a, b): a unless b < a
Float0 == PyNum(TRUE, 0, 0)
Float1 == PyNum(TRUE, 1, 0)

-----------------------------------------------------------------------------
(* render_startup_card.  The em dash of the source is written "-" here.    *)

\* lines 151-157 and 160-165: the header, the metrics, the core product
CardHead(s) ==
    LET title == Or(Get(s, K("name")), W("Unnamed Startup"))
        site == Or(Get(s, K("website")), PyStr(<<>>))
        website == Strip(site.s)
        stage == Or(Get(s, K("stage")), W("unknown"))
        size == Or(Get(s, K("team_size")), W("unknown"))
    IN  IF site.t # "str" THEN Crashed(<<>>, "AttributeError")
        ELSE Shown(<<
            IF website # <<>>
            THEN Call("subheader", <<PyStr(Fmt(title) \o <<" - ">> \o website)>>)
            ELSE Call("subheader", <<title>>),
            Call("caption", <<Or(Get(s, K("hq_location")), W("Location: unknown"))>>),
            Call("metric", <<W("Stage"), stage>>),
            Call("metric", <<W("Team Size"), size>>),
            Call("write", <<PyStr(<<"Core Product: ">>
                                  \o Fmt(Or(Get(s, K("core_product")), W("unknown"))))>>) >>)

\* lines 171-176: one founder
FounderLine(f) ==
    LET name == Or(Get(f, K("name")), W("unknown"))
        bg == Or(Get(f, K("background")), W("unknown"))
        notes == Or(Get(f, K("mentality_notes")), W("-"))
    IN  IF f.t # "obj" THEN Crashed(<<>>, "AttributeError")
        ELSE Shown(
            <<Call("write", <<PyStr(<<"- ">> \o Fmt(name) \o <<": ">> \o Fmt(bg))>>)>>
            \o (IF Truthy(notes) /\ notes # W("-")
                THEN <<Call("caption", <<PyStr(<<"  Mentality: ">> \o Fmt(notes))>>)>>
                ELSE <<>>))

\* for x in v: Line(x), with the lines already computed for the items
ForEach(v, lines) ==
    IF Iter(v).raised THEN Crashed(<<>>, "TypeError") ELSE ThenAll(lines)

\* lines 167-176
CardFounders(s) ==
    LET founders == Or(Get(s, K("founders")), EmptyList)
        items == ItemsOf(founders)
    IN  IF ~Truthy(founders) THEN Shown(<<>>)
        ELSE Then(Shown(<<Call("expander", <<W("Founders and mentality")>>)>>),
                  ForEach(founders, [i \in 1..Len(items) |-> FounderLine(items[i])]))

\* lines 184-189: one repository
RepoLine(r) ==
    LET rname == Or(Get(r, K("name")), W("repo"))
        rurl == Or(Get(r, K("url")), PyStr(<<>>))
    IN  IF r.t # "obj" THEN Crashed(<<>>, "AttributeError")
        ELSE IF Truthy(rurl)
        THEN Shown(<<Call("write", <<PyStr(<<"- ">> \o Fmt(rname) \o <<": ">> \o Fmt(rurl))>>)>>)
        ELSE Shown(<<Call("write", <<PyStr(<<"- ">> \o Fmt(rname))>>)>>)

\* line 178 without its "or {}": None.get raises AttributeError
CardOpenSourceNoDefault(s) ==
    LET oss == Get(s, K("open_source_involvement"))
        oss_level == Or(Get(oss, K("level")), W("unknown"))
        repos == Or(Get(oss, K("repos")), EmptyList)
        items == ItemsOf(repos)
    IN  IF oss.t # "obj" THEN Crashed(<<>>, "AttributeError")
        ELSE Then(Shown(<<Call("expander", <<PyStr(<<"Open Source: ">> \o Fmt(oss_level))>>)>>),
                  IF Truthy(repos)
                  THEN ForEach(repos, [i \in 1..Len(items) |-> RepoLine(items[i])])
                  ELSE Shown(<<Call("write", <<W("No repos listed.")>>)>>))

\* lines 178-191
CardOpenSource(s) ==
    LET oss == Or(Get(s, K("open_source_involvement")), EmptyDict)
        oss_level == Or(Get(oss, K("level")), W("unknown"))
        repos == Or(Get(oss, K("repos")), EmptyList)
        items == ItemsOf(repos)
    IN  IF oss.t # "obj" THEN Crashed(<<>>, "AttributeError")
        ELSE Then(Shown(<<Call("expander", <<PyStr(<<"Open Source: ">> \o Fmt(oss_level))>>)>>),
                  IF Truthy(repos)
                  THEN ForEach(repos, [i \in 1..Len(items) |-> RepoLine(items[i])])
                  ELSE Shown(<<Call("write", <<W("No repos listed.")>>)>>))

\* ", ".join(roles)
JoinRoles(roles) ==
    LET items == ItemsOf(roles)
    IN  IF Iter(roles).raised \/ \E i \in 1..Len(items) : items[i].t # "str"
        THEN Raise("TypeError")
        ELSE Ret(Join(<<", ">>, [i \in 1..Len(items) |-> items[i].s]))

\* lines 193-202: the rationale, the roles, the outreach note
CardAligned(s) ==
    LET roles == Or(Get(s, K("suggested_roles")), EmptyList)
        outreach == Or(Get(s, K("example_outreach")), PyStr(<<>>))
        why == Shown(<<Call("write", <<PyStr(<<"Why aligned: ">>
                                  \o Fmt(Or(Get(s, K("why_aligned")), W("-"))))>>)>>)
        rolesLine ==
            IF ~Truthy(roles) THEN Shown(<<>>)
            ELSE IF JoinRoles(roles).raised THEN Crashed(<<>>, "TypeError")
            ELSE Shown(<<Call("write", <<PyStr(<<"Suggested roles: ">> \o JoinRoles(roles).v)>>)>>)
        note ==
            IF Truthy(outreach)
            THEN Shown(<<Call("expander", <<W("Example outreach")>>), Call("code", <<outreach>>)>>)
            ELSE Shown(<<>>)
    IN  Then(why, Then(rolesLine, note))

\* lines 208-213: one source link
SourceLine(src) ==
    LET label == Or(Get(src, K("label")), W("link"))
        url == Or(Get(src, K("url")), PyStr(<<>>))
    IN  IF src.t # "obj" THEN Crashed(<<>>, "AttributeError")
        ELSE IF Truthy(url)
        THEN Shown(<<Call("write", <<PyStr(<<"- ">> \o Fmt(label) \o <<": ">> \o Fmt(url))>>)>>)
        ELSE Shown(<<Call("write", <<PyStr(<<"- ">> \o Fmt(label) \o <<": (unknown)">>)>>)>>)

\* lines 204-213
CardSources(s) ==
    LET sources == Or(Get(s, K("sources")), EmptyList)
        items == ItemsOf(sources)
    IN  IF ~Truthy(sources) THEN Shown(<<>>)
        ELSE Then(Shown(<<Call("expander", <<W("Sources / Links")>>)>>),
                  ForEach(sources, [i \in 1..Len(items) |-> SourceLine(items[i])]))

\* min(conf, 1.0): the lower bound forgotten
ClampUpperOnly(conf) == PyMin(conf, Float1)

\* min(max(conf, 0.0), 1.0)
Clamp(conf) == PyMin(PyMax(conf, Float0), Float1)

\* lines 215-217; isinstance(conf, (float, int)) holds of a bool too
CardConfidence(s) ==
    LET conf == Get(s, K("confidence"))
    IN  IF conf.t \in {"num", "bool"}
        THEN Shown(<<Call("progress", <<Clamp(conf)>>)>>)
        ELSE Shown(<<>>)

\* s.get of a value that is no dict raises AttributeError before anything is shown
render_startup_card(s) ==
    IF s.t # "obj" THEN Crashed(<<>>, "AttributeError")
    ELSE Then(CardHead(s),
         Then(CardFounders(s),
         Then(CardOpenSource(s),
         Then(CardAligned(s),
         Then(CardSources(s), CardConfidence(s))))))

-----------------------------------------------------------------------------
(* The StartupEntry values the renderer is run on.                         *)

FounderKeys == {K("name"), K("background"), K("mentality_notes")}
RepoKeys == {K("name"), K("url")}
SourceKeys == {K("label"), K("url")}
OssKeys == {K("level"), K("repos")}
TextKeys ==
    {K("name"), K("website"), K("hq_location"), K("stage"), K("team_size"),
     K("core_product"), K("why_aligned"), K("example_outreach")}
ListKeys == {K("founders"), K("suggested_roles"), K("sources")}
EntryKeys ==
    TextKeys \cup ListKeys \cup {K("open_source_involvement"), K("confidence")}

FullFounder == PyDict([k \in FounderKeys |-> PyStr(<<"f">> \o k)])
FullRepo == PyDict([k \in RepoKeys |-> PyStr(<<"r">> \o k)])
FullSource == PyDict([k \in SourceKeys |-> PyStr(<<"s">> \o k)])
FullOss == PyDict([k \in OssKeys |-> IF k = K("level") THEN W("core") ELSE PyList(<<FullRepo>>)])

\* an entry with every key set as the schema of the prompt asks
FullEntry ==
    PyDict([k \in EntryKeys |->
        CASE k \in TextKeys -> PyStr(<<"v">> \o k)
          [] k = K("founders") -> PyList(<<FullFounder>>)
          [] k = K("suggested_roles") -> PyList(<<W("role1"), W("role2")>>)
          [] k = K("sources") -> PyList(<<FullSource>>)
          [] k = K("open_source_involvement") -> FullOss
          [] k = K("confidence") -> PyNum(TRUE, 73, 2)])

\* the empty value of the type of d[k]; a number has none and is left out as null
EmptyOf(v) ==
    CASE v.t = "str" -> PyStr(<<>>)
      [] v.t = "list" -> EmptyList
      [] v.t = "obj" -> EmptyDict
      [] OTHER -> PyNone

MissingModes == {"absent", "null", "empty"}

\* d with the keys in gone made absent, null or empty
Without(d, gone, mode) ==
    IF mode = "absent" THEN PyDict([k \in DOMAIN d.o \ gone |-> d.o[k]])
    ELSE PyDict([k \in DOMAIN d.o |->
            IF k \notin gone THEN d.o[k]
            ELSE IF mode = "null" THEN PyNone ELSE EmptyOf(d.o[k])])

With(d, k, v) == PyDict(Put(d.o, k, v))

\* values of the wrong type for a field that holds a list of objects
WrongLists ==
    {W("abc"), PyInt(5), PyBool(TRUE), Dict1("a", PyInt(1)),
     PyList(<<W("Alice")>>), PyList(<<PyInt(1)>>), PyList(<<PyNone>>),
     PyList(<<PyList(<<>>)>>)}
WrongRoles ==
    {PyInt(5), PyBool(TRUE), PyList(<<W("a"), PyInt(1)>>), PyList(<<PyNone>>),
     PyList(<<EmptyDict>>)}
WrongOss == {W("core"), PyInt(5), PyBool(TRUE), PyList(<<W("core")>>)}

\* confidence values: -0.5, 0.0, 0.73, 1.0, 2.0, 0.01, 0.999, 1.001, -1000.0, 1000.0,
\* and the ints -1, 0, 1, 2, 1000
ConfPool ==
    { PyNum(TRUE, -5, 1), PyNum(TRUE, 0, 0), PyNum(TRUE, 73, 2), PyNum(TRUE, 1, 0),
      PyNum(TRUE, 2, 0), PyNum(TRUE, 1, 2), PyNum(TRUE, 999, 3), PyNum(TRUE, 1001, 3),
      PyNum(TRUE, -1000, 0), PyNum(TRUE, 1000, 0),
      PyInt(-1), PyInt(0), PyInt(1), PyInt(2), PyInt(1000) }

\* an input of the renderer: the entry, how it was made from FullEntry, and
\* which keys were taken away (gone) at which level (at)
Entry(kind, s, at, gone, mode) ==
    [kind |-> kind, s |-> s, at |-> at, gone |-> gone, mode |-> mode]

WithFounder(f) == With(FullEntry, K("founders"), PyList(<<f, FullFounder>>))
WithOss(o) == With(FullEntry, K("open_source_involvement"), o)
WithRepo(r) == WithOss(With(FullOss, K("repos"), PyList(<<r, FullRepo>>)))
WithSource(x) == With(FullEntry, K("sources"), PyList(<<x, FullSource>>))

RenderInputs ==
    {Entry("missing", Without(FullEntry, g, m), "entry", g, m) :
        g \in SUBSET EntryKeys, m \in MissingModes}
    \cup {Entry("missing", WithFounder(Without(FullFounder, g, m)), "founder", g, m) :
        g \in SUBSET FounderKeys, m \in MissingModes}
    \cup {Entry("missing", WithOss(Without(FullOss, g, m)), "oss", g, m) :
        g \in SUBSET OssKeys, m \in MissingModes}
    \cup {Entry("missing", WithRepo(Without(FullRepo, g, m)), "repo", g, m) :
        g \in SUBSET RepoKeys, m \in MissingModes}
    \cup {Entry("missing", WithSource(Without(FullSource, g, m)), "source", g, m) :
        g \in SUBSET SourceKeys, m \in MissingModes}
    \cup {Entry("wrong", With(FullEntry, k, v), "entry", {k}, "wrong") :
        k \in {K("founders"), K("sources")}, v \in WrongLists}
    \cup {Entry("wrong", With(FullEntry, K("suggested_roles"), v), "entry",
                {K("suggested_roles")}, "wrong") : v \in WrongRoles}
    \cup {Entry("wrong", WithOss(v), "entry", {K("open_source_involvement")}, "wrong") :
        v \in WrongOss}
    \cup {Entry("wrong", WithOss(With(FullOss, K("repos"), v)), "oss", {K("repos")}, "wrong") :
        v \in WrongLists}
    \cup {Entry("conf", With(FullEntry, K("confidence"), c), "entry", {}, "none") :
        c \in ConfPool}

InitRender ==
    /\ entry \in RenderInputs
    /\ card = NotRun
    /\ text = Unused /\ parsed = Unused /\ form = Unused /\ prompt = Unused
    /\ environ = Unused /\ sess = Unused

\* render_startup_card(s)
RenderCard ==
    /\ ~card.done
    /\ card' = Done(render_startup_card(entry.s))
    /\ UNCHANGED <<text, parsed, entry, form, prompt, environ, sess>>

NextRender == RenderCard

SpecRender == InitRender /\ [][NextRender]_vars

-----------------------------------------------------------------------------
(* build_user_prompt.  The fixed text of the template is written as        *)
(* literal symbols, one per stretch between two substitutions.             *)

\* the substituted lines of the template, in order: lines 40-45 and 48-55
ProfileLines ==
    << [key |-> K("name"), label |-> "  - Name: ", fallback |-> "N/A"],
       [key |-> K("headline"), label |-> "  - Headline/Role: ", fallback |-> "N/A"],
       [key |-> K("skills"), label |-> "  - Skills/Tech: ", fallback |-> "N/A"],
       [key |-> K("interests"), label |-> "  - Interests/Theses: ", fallback |-> "N/A"],
       [key |-> K("values"), label |-> "  - Values/Culture: ", fallback |-> "N/A"],
       [key |-> K("links"), label |-> "  - Notable Links (GitHub/Portfolio/LinkedIn): ",
        fallback |-> "N/A"] >>

PrefsLines ==
    << [key |-> K("sectors"), label |-> "  - Sectors/Problem Areas: ", fallback |-> "Any"],
       [key |-> K("stage"), label |-> "  - Stage Preference: ", fallback |-> "Any"],
       [key |-> K("team_size"), label |-> "  - Team Size Range: ", fallback |-> "Any"],
       [key |-> K("location"), label |-> "  - Location/Remote: ", fallback |-> "Any"],
       [key |-> K("oss_importance"), label |-> "  - Open-Source Importance: ",
        fallback |-> "Neutral"],
       [key |-> K("other"), label |-> "  - Other Constraints: ", fallback |-> "None"],
       [key |-> K("exclude"), label |-> "  - Exclude Companies: ", fallback |-> "None"],
       [key |-> K("geo"), label |-> "  - Geographic Focus: ", fallback |-> "Any"] >>

\* the value alone after its label: the "or" of the template forgotten
FieldLineNoFallback(d, line) ==
    <<line.label>> \o Fmt(Get(d, line.key)) \o <<LF>>

\* {d.get(key) or fallback} after its label, and the end of the line
FieldLine(d, line) ==
    <<line.label>> \o Fmt(Or(Get(d, line.key), W(line.fallback))) \o <<LF>>

RECURSIVE Concat(_)
Concat(ss) == IF ss = <<>> THEN <<>> ELSE Head(ss) \o Concat(Tail(ss))

FieldLines(d, lines) == Concat([i \in 1..Len(lines) |-> FieldLine(d, lines[i])])

\* repr of a str: in single quotes, or in double quotes when it holds a single
\* quote and no double quote; the backslash and the line feed escaped
Repr(x) ==
    LET q == IF (\E i \in 1..Len(x) : x[i] = "'") /\ ~(\E i \in 1..Len(x) : x[i] = QT)
             THEN QT ELSE "'"
        esc(c) == CASE c = BS -> <<BS, BS>>
                    [] c = LF -> <<BS, "n">>
                    [] c = q /\ q = "'" -> <<BS, "'">>
                    [] OTHER -> <<c>>
    IN  <<q>> \o Concat([i \in 1..Len(x) |-> esc(x[i])]) \o <<q>>

\* f"{a_list}": the reprs of its items between brackets
ReprList(l) ==
    <<"[">> \o Join(<<", ">>, [i \in 1..Len(l) |-> Repr(l[i].s)]) \o <<"]">>

\* lines 28-113; top_n is an int
build_user_prompt(profile, prefs, provided_companies, top_n) ==
    Strip(
        <<LF, "You are a startup-curation research agent. (lines 29-37)", LF,
          "Input:", LF, "- Candidate Profile:", LF>>
        \o FieldLines(profile, ProfileLines)
        \o <<LF, "- Preferences/Filters:", LF>>
        \o FieldLines(prefs, PrefsLines)
        \o <<LF, "- Provided companies to vet (optional):", LF, "  ">>
        \o (IF Truthy(provided_companies) THEN ReprList(provided_companies.l) ELSE <<"None">>)
        \o <<LF, LF, "Output requirements: (lines 60-66)", LF,
             "JSON schema: (lines 68-106)", LF, "Constraints:", LF,
             "- Limit the list to ", "exactly ">>
        \o (IF top_n < 0 THEN <<"-">> ELSE <<>>) \o DigitsOf(Abs(top_n), 1)
        \o <<" startups.", LF, "- Ensure diversity of choices while adhering to preferences.",
             LF, "- Keep fields concise but specific.", LF>>)

\* x.strip() if x else "" (lines 258-274): what main makes of a text widget
Stripped(x) == IF Truthy(x) THEN PyStr(Strip(x.s)) ELSE PyStr(<<>>)

\* lines 257-279: the profile, the preferences and the company list main builds
\* from the widgets; the two select widgets are passed on as they are
MainProfile(w) == PyDict([k \in DOMAIN w.profile.o |-> Stripped(w.profile.o[k])])
MainPrefs(w) ==
    PyDict([k \in DOMAIN w.prefs.o |->
        IF k \in {K("stage"), K("oss_importance")} THEN w.prefs.o[k]
        ELSE Stripped(w.prefs.o[k])])
MainCompanies(w) ==
    LET lines == SplitLines(w.provided_raw.s)
        kept == {i \in 1..Len(lines) : Strip(lines[i]) # <<>>}
        nth(n) == CHOOSE i \in kept : Cardinality({j \in kept : j < i}) = n - 1
    IN  IF ~Truthy(w.provided_raw) THEN EmptyList
        ELSE PyList([n \in 1..Cardinality(kept) |-> PyStr(Strip(lines[nth(n)]))])

-----------------------------------------------------------------------------
(* The inputs the prompt builder is run on.                                *)

ProfileKeys == {ProfileLines[i].key : i \in 1..Len(ProfileLines)}
PrefsKeys == {PrefsLines[i].key : i \in 1..Len(PrefsLines)}
SelectKeys == {K("stage"), K("oss_importance")}     \* widgets that always hold an option

\* a non-blank value of the field k, with or without spaces around it
Filled(k, padded) == IF padded THEN PyStr(<<SP, "my", SP>> \o k \o <<SP>>) ELSE PyStr(<<"my", SP>> \o k)

BlankModes == {"absent", "null", "empty", "space"}

\* a dict over keys, the ones in gone blank in the given way
Fields(keys, gone, mode, padded) ==
    PyDict([k \in (IF mode = "absent" THEN keys \ gone ELSE keys) |->
        IF k \notin gone THEN Filled(k, padded)
        ELSE CASE mode = "null" -> PyNone
               [] mode = "empty" -> PyStr(<<>>)
               [] mode = "space" -> PyStr(<<SP, SP>>)])

CompanyLists ==
    {EmptyList, PyList(<<W("acme")>>), PyList(<<W("acme"), PyStr(<<"b", SP, "c">>)>>),
     PyList(<<PyStr(<<"O", "'", "Neil">>), PyStr(<<"a", BS, "b">>)>>)}

RawLists ==
    {PyStr(<<>>), PyStr(<<"acme">>), PyStr(<<"acme", LF, SP, LF, SP, "b", SP, "c", SP, LF>>),
     PyStr(<<SP, LF>>)}

TopNs == {0, 3, 5, 8, 15, 120}

Form(via, profile, prefs, provided, n, gone, mode, padded) ==
    [via |-> via, profile |-> profile, prefs |-> prefs, provided |-> provided,
     top_n |-> n, gone |-> gone, mode |-> mode, padded |-> padded]

PromptInputs ==
    {Form("direct", Fields(ProfileKeys, g, m, p), Fields(PrefsKeys, {}, m, p), EmptyList, 5,
          g, m, p) : g \in SUBSET ProfileKeys, m \in BlankModes, p \in BOOLEAN}
    \cup {Form("direct", Fields(ProfileKeys, {}, m, p), Fields(PrefsKeys, g, m, p), EmptyList, 5,
          g, m, p) : g \in SUBSET PrefsKeys, m \in BlankModes, p \in BOOLEAN}
    \cup {Form("direct", Fields(ProfileKeys, ProfileKeys \ {K("headline")}, m, FALSE),
               Fields(PrefsKeys, PrefsKeys, m, FALSE), EmptyList, 5,
               (ProfileKeys \ {K("headline")}) \cup PrefsKeys, m, FALSE) : m \in BlankModes}
    \cup {Form("direct", Fields(ProfileKeys, {}, "empty", FALSE),
               Fields(PrefsKeys, {}, "empty", FALSE), c, n, {}, "empty", FALSE) :
            c \in CompanyLists, n \in TopNs}
    \cup {Form("main", Fields(ProfileKeys, g, m, p), Fields(PrefsKeys, {}, m, p), PyStr(<<>>), 5,
          g, m, p) : g \in SUBSET ProfileKeys, m \in {"empty", "space"}, p \in BOOLEAN}
    \cup {Form("main", Fields(ProfileKeys, {}, m, p), Fields(PrefsKeys, g, m, p), PyStr(<<>>), 5,
          g, m, p) : g \in SUBSET (PrefsKeys \ SelectKeys), m \in {"empty", "space"},
                     p \in BOOLEAN}
    \cup {Form("main", Fields(ProfileKeys, {}, "empty", FALSE),
               Fields(PrefsKeys, {}, "empty", FALSE), c, n, {}, "empty", FALSE) :
            c \in RawLists, n \in {3, 8, 15}}

InitPrompt ==
    /\ form \in PromptInputs
    /\ prompt = NotRun
    /\ text = Unused /\ parsed = Unused /\ entry = Unused /\ card = Unused
    /\ environ = Unused /\ sess = Unused

\* build_user_prompt called with the dicts as given
BuildPrompt ==
    /\ ~prompt.done /\ form.via = "direct"
    /\ prompt' = Done(build_user_prompt(form.profile, form.prefs, form.provided, form.top_n))
    /\ UNCHANGED <<text, parsed, entry, card, form, environ, sess>>

\* line 297, with the dicts main builds from the widgets
MainBuildPrompt ==
    /\ ~prompt.done /\ form.via = "main"
    /\ prompt' = Done(build_user_prompt(MainProfile(form), MainPrefs(form),
                                        MainCompanies([provided_raw |-> form.provided]),
                                        form.top_n))
    /\ UNCHANGED <<text, parsed, entry, card, form, environ, sess>>

NextPrompt == BuildPrompt \/ MainBuildPrompt

SpecPrompt == InitPrompt /\ [][NextPrompt]_vars

-----------------------------------------------------------------------------
(* main: one run of the script in one session.  Streamlit runs the script  *)
(* of each session in a thread of the one server process, so os.environ is *)
(* shared; a step below is the code between two accesses to it.            *)

Sessions == {"s1", "s2"}

\* the key a user types into the sidebar of session s
KeyOf(s) == PyStr(<<"key of ", s>>)

ErrorCall(msg) == Call("error", <<PyStr(msg)>>)
MissingKeyMessage == <<"Please provide your OpenAI API key in the sidebar.">>
ParseErrorMessage == <<"Failed to parse the model response as JSON. Showing raw output below.">>
Footer == <<Call("markdown", <<W("---")>>), Call("caption", <<W("Note: (line 335)")>>)>>

\* a session before its first run
FreshSession ==
    [pc |-> "idle", runs |-> 0, user_key |-> PyStr(<<>>), entered |-> FALSE,
     generate |-> FALSE, client |-> PyNone, raw_text |-> PyNone, data |-> NotRun,
     page |-> <<>>, nreq |-> 0, sent |-> <<>>, exc |-> "none", caught |-> "none"]

RunOver(r) == r.pc \in {"idle", "end", "stopped", "crashed"}

\* a rerun: the widgets hold what the user left in them
BeginRun(r, key, click) ==
    [r EXCEPT !.pc = "sidebar", !.runs = @ + 1, !.user_key = key,
              !.entered = @ \/ Truthy(key), !.generate = click, !.client = PyNone,
              !.raw_text = PyNone, !.data = NotRun, !.page = <<>>, !.nreq = 0,
              !.exc = "none", !.caught = "none"]

\* lines 13-15: the environment after set_api_key_from_ui
set_api_key_from_ui(env, user_key) == IF Truthy(user_key) THEN user_key ELSE env

\* lines 18-19: OpenAI() takes its api_key from the environment and raises
\* OpenAIError when the variable is not set (an empty value is taken as it is)
get_client(env) == IF env = PyNone THEN Raise("OpenAIError") ELSE Ret(env)

\* an uncaught exception ends the run; Streamlit shows it on the page
Uncaught(r, e) == [r EXCEPT !.pc = "crashed", !.exc = e]

\* st.stop() after st.error(msg)
StopWith(r, msg) == [r EXCEPT !.pc = "stopped", !.page = Append(@, ErrorCall(msg))]

\* lines 291-294
CredentialCheck(r, env) ==
    IF ~r.generate THEN [r EXCEPT !.pc = "end", !.page = @ \o Footer]
    ELSE IF ~Truthy(env) THEN StopWith(r, MissingKeyMessage)
    ELSE [r EXCEPT !.pc = "call"]

\* the request of line 128 leaves with the key the client was built with
RequestSent(r) == [r EXCEPT !.nreq = @ + 1, !.sent = Append(@, r.client)]

\* lines 300-302 answered by another attempt instead of st.stop()
ApiFailedRetry(r, e) == [RequestSent(r) EXCEPT !.pc = "call"]

\* lines 300-302: except Exception as e: st.error(...); st.stop()
ApiFailed(r, e) ==
    [StopWith(RequestSent(r), <<"OpenAI API error: ", e>>) EXCEPT !.caught = e]

\* line 299 returned
ApiReturned(r, raw) == [RequestSent(r) EXCEPT !.pc = "parse", !.raw_text = raw]

\* lines 315-317
ShowStartups(data) ==
    LET startups == Or(Get(data, K("startups")), EmptyList)
        items == ItemsOf(startups)
    IN  ForEach(startups,
            [i \in 1..Len(items) |->
                Then(Shown(<<Call("markdown", <<W("---")>>)>>), render_startup_card(items[i]))])

\* lines 319-325
ShowNotes(data) ==
    LET notes == Get(data, K("notes"))
        next == Get(data, K("next_actions"))
        items == ItemsOf(next)
    IN  Then(Shown(<<Call("markdown", <<W("---")>>)>>
                   \o (IF Truthy(notes) THEN <<Call("info", <<notes>>)>> ELSE <<>>)),
             IF ~Truthy(next) THEN Shown(<<>>)
             ELSE Then(Shown(<<Call("write", <<W("Next actions:")>>)>>),
                       ForEach(next, [i \in 1..Len(items) |->
                           Shown(<<Call("write", <<PyStr(<<"- ">> \o Fmt(items[i]))>>)>>)])))

\* lines 327-332: the export; the document stands for its indented JSON text
OfferExport(data) == Shown(<<Call("download_button", <<W("Download JSON"), data>>)>>)

\* lines 311-332: data.get of a value that is no dict raises AttributeError
ShowDocument(data) ==
    LET ready == <<Call("success", <<W("Curated list ready!")>>)>>
    IN  IF data.t # "obj" THEN Crashed(ready, "AttributeError")
        ELSE Then(Shown(Append(ready,
                      Call("caption", <<Or(Get(data, K("query_summary")), PyStr(<<>>))>>))),
             Then(ShowStartups(data), Then(ShowNotes(data), OfferExport(data))))

\* lines 305-309
ShowRaw(raw) ==
    <<ErrorCall(ParseErrorMessage), Call("expander", <<W("Raw model output")>>),
      Call("text", <<raw>>)>>

\* lines 304-335
Present(r) ==
    LET p == parse_json_response(r.raw_text)
        doc == ShowDocument(p.v)
    IN  IF p.raised THEN Uncaught(r, p.e)
        ELSE IF ~Truthy(p.v)
        THEN [r EXCEPT !.pc = "stopped", !.data = Done(p.v), !.page = @ \o ShowRaw(r.raw_text)]
        ELSE IF doc.raised
        THEN [Uncaught(r, doc.e) EXCEPT !.data = Done(p.v), !.page = @ \o doc.out]
        ELSE [r EXCEPT !.pc = "end", !.data = Done(p.v), !.page = @ \o doc.out \o Footer]

-----------------------------------------------------------------------------
(* The generate flow of the sessions of one process.                       *)

\* OPENAI_API_KEY at the start of the process: not set, empty, or a key
StartEnvs == {PyNone, PyStr(<<>>), PyStr(<<"key of the deployment">>)}

ApiErrors == {"AuthenticationError", "RateLimitError"}

GoodEntry == Dict2("name", W("Acme"), "confidence", PyNum(TRUE, 73, 2))

\* decoded documents the model may answer with: as the schema asks, and not
WellTypedDocs ==
    { EmptyDict,
      Dict1("startups", EmptyList),
      Dict2("startups", PyList(<<GoodEntry, EmptyDict>>), "next_actions", PyList(<<W("apply")>>)) }
IllTypedDocs ==
    { Dict1("startups", PyList(<<Dict1("founders", PyList(<<W("Alice")>>)), GoodEntry>>)) }
FlowDocs == WellTypedDocs \cup IllTypedDocs

\* message.content: a text, or None
FlowResponses ==
    {PyStr(Minify(d, TRUE)) : d \in FlowDocs}
    \cup { PyStr(Wrap("fence_tag", Minify(Dict1("startups", EmptyList), TRUE))),
           PyStr(<<"not", SP, "json", SP, "at", SP, "all">>),
           PyStr(Wrap("fence", <<"not", SP, "json">>)),
           PyStr(<<"[", "1", "]">>),
           PyStr(<<"null">>),
           PyNone }

Init ==
    /\ \E e \in StartEnvs : environ = [at_start |-> e, now |-> e]
    /\ sess = [s \in Sessions |-> FreshSession]
    /\ text = Unused /\ parsed = Unused /\ entry = Unused /\ card = Unused
    /\ form = Unused /\ prompt = Unused

Idle == <<text, parsed, entry, card, form, prompt>>

\* the user changes a widget or presses the button: the script runs again
StartRun(s) ==
    /\ RunOver(sess[s]) /\ sess[s].runs < MaxRuns
    /\ \E key \in {PyStr(<<>>), KeyOf(s)}, click \in BOOLEAN :
          sess' = [sess EXCEPT ![s] = BeginRun(@, key, click)]
    /\ UNCHANGED <<environ, Idle>>

\* line 225
Sidebar(s) ==
    /\ sess[s].pc = "sidebar"
    /\ environ' = [environ EXCEPT !.now = set_api_key_from_ui(@, sess[s].user_key)]
    /\ sess' = [sess EXCEPT ![s].pc = "client"]
    /\ UNCHANGED Idle

\* line 255
MakeClient(s) ==
    /\ sess[s].pc = "client"
    /\ sess' = [sess EXCEPT ![s] =
                  IF get_client(environ.now).raised
                  THEN Uncaught(@, get_client(environ.now).e)
                  ELSE [@ EXCEPT !.pc = "button", !.client = get_client(environ.now).v]]
    /\ UNCHANGED <<environ, Idle>>

\* lines 289-294
Button(s) ==
    /\ sess[s].pc = "button"
    /\ sess' = [sess EXCEPT ![s] = CredentialCheck(@, environ.now)]
    /\ UNCHANGED <<environ, Idle>>

\* lines 296-302, the call raising
CallFails(s) ==
    /\ sess[s].pc = "call"
    /\ \E e \in ApiErrors : sess' = [sess EXCEPT ![s] = ApiFailed(@, e)]
    /\ UNCHANGED <<environ, Idle>>

\* lines 296-299, the call returning
CallReturns(s) ==
    /\ sess[s].pc = "call"
    /\ \E raw \in FlowResponses : sess' = [sess EXCEPT ![s] = ApiReturned(@, raw)]
    /\ UNCHANGED <<environ, Idle>>

\* lines 304-335
ParseAndShow(s) ==
    /\ sess[s].pc = "parse"
    /\ sess' = [sess EXCEPT ![s] = Present(@)]
    /\ UNCHANGED <<environ, Idle>>

Next ==
    \E s \in Sessions :
        \/ StartRun(s)
        \/ Sidebar(s)
        \/ MakeClient(s)
        \/ Button(s)
        \/ CallFails(s)
        \/ CallReturns(s)
        \/ ParseAndShow(s)

Spec == Init /\ [][Next]_vars

-----------------------------------------------------------------------------
(* The claims.                                                             *)

\* sub occurs in s as a run of consecutive symbols
Contains(s, sub) == \E i \in 1..(Len(s) - Len(sub) + 1) : SubSeq(s, i, i + Len(sub) - 1) = sub

HasCall(out, c) == \E i \in 1..Len(out) : out[i] = c
HasWidget(out, w) == \E i \in 1..Len(out) : out[i].w = w
\* the n-th call made after the call c
After(out, c, n) == out[(CHOOSE i \in 1..Len(out) : out[i] = c) + n]
Write(s) == Call("write", <<PyStr(s)>>)

\* C1: parse_json_response never raises; it returns None for every text that
\* (after the fence-stripping pass) is no JSON or is JSON whose top-level value
\* is no object, and returns a document only when the top-level value is an object.
C1_NonObjectsRejected ==
    parsed.done =>
        /\ ~parsed.r.raised
        /\ text.src \in {"value", "none"} => parsed.r.v = PyNone
        /\ parsed.r.v # PyNone => parsed.r.v.t = "obj"

\* C3: a document encoded as minified JSON, bare or wrapped in exactly one
\* fenced block (with or without a language tag), is returned structurally
\* equal by parse_json_response, never as None.
C3_RoundTrip ==
    (parsed.done /\ text.src = "doc" /\ text.wrap \in FencedOnce) => parsed.r = Ret(text.v)

\* the entry with its wrong-typed field left out
AsIfMissing(e) ==
    IF e.at = "entry" THEN Without(e.s, e.gone, "absent")
    ELSE WithOss(Without(Get(e.s, K("open_source_involvement")), e.gone, "absent"))

\* C4: a card whose nested field has the wrong type is rendered without raising,
\* exactly as if that field were missing.
C4_WrongTypeAsMissing ==
    (card.done /\ entry.kind = "wrong") =>
        /\ ~card.r.raised
        /\ card.r = render_startup_card(AsIfMissing(entry))

\* what the card of an entry shows for the keys taken from the entry itself
EntryPlaceholders(out, gone) ==
    /\ K("name") \in gone => (out[1].w = "subheader" /\ Head(out[1].a[1].s) = "Unnamed Startup")
    /\ K("website") \in gone => Len(out[1].a[1].s) <= 2
    /\ K("hq_location") \in gone => HasCall(out, Call("caption", <<W("Location: unknown")>>))
    /\ K("stage") \in gone => HasCall(out, Call("metric", <<W("Stage"), W("unknown")>>))
    /\ K("team_size") \in gone => HasCall(out, Call("metric", <<W("Team Size"), W("unknown")>>))
    /\ K("core_product") \in gone => HasCall(out, Write(<<"Core Product: ", "unknown">>))
    /\ K("founders") \in gone <=> ~HasCall(out, Call("expander", <<W("Founders and mentality")>>))
    /\ K("open_source_involvement") \in gone =>
            /\ HasCall(out, Call("expander", <<PyStr(<<"Open Source: ", "unknown">>)>>))
            /\ HasCall(out, Write(<<"No repos listed.">>))
    /\ K("why_aligned") \in gone => HasCall(out, Write(<<"Why aligned: ", "-">>))
    /\ K("suggested_roles") \in gone <=>
            ~(\E i \in 1..Len(out) : out[i].w = "write" /\ Head(out[i].a[1].s) = "Suggested roles: ")
    /\ K("example_outreach") \in gone <=> ~HasWidget(out, "code")
    /\ K("sources") \in gone <=> ~HasCall(out, Call("expander", <<W("Sources / Links")>>))
    /\ K("confidence") \in gone <=> ~HasWidget(out, "progress")

\* what the card shows for the keys taken from its first founder, from its
\* open_source_involvement, from its first repository, from its first source
ItemPlaceholders(out, at, gone) ==
    LET has(k) == K(k) \notin gone
        founders == Call("expander", <<W("Founders and mentality")>>)
        repo == After(out, Call("expander", <<PyStr(<<"Open Source: ", "core">>)>>), 1)
        source == After(out, Call("expander", <<W("Sources / Links")>>), 1)
    IN  CASE at = "founder" ->
                /\ After(out, founders, 1) = Write(<<"- ">> \o (IF has("name") THEN <<"f", "name">> ELSE <<"unknown">>)
                                   \o <<": ">>
                                   \o (IF has("background") THEN <<"f", "background">>
                                       ELSE <<"unknown">>))
                /\ After(out, founders, 2) =
                       IF has("mentality_notes")
                       THEN Call("caption", <<PyStr(<<"  Mentality: ", "f", "mentality_notes">>)>>)
                       ELSE Write(<<"- ", "f", "name", ": ", "f", "background">>)
          [] at = "oss" ->
                /\ has("level") <=> HasCall(out, Call("expander", <<PyStr(<<"Open Source: ", "core">>)>>))
                /\ ~has("level") <=> HasCall(out, Call("expander", <<PyStr(<<"Open Source: ", "unknown">>)>>))
                /\ ~has("repos") <=> HasCall(out, Write(<<"No repos listed.">>))
          [] at = "repo" ->
                repo = Write(<<"- ">> \o (IF has("name") THEN <<"r", "name">> ELSE <<"repo">>)
                             \o (IF has("url") THEN <<": ", "r", "url">> ELSE <<>>))
          [] at = "source" ->
                source = Write(<<"- ">> \o (IF has("label") THEN <<"s", "label">> ELSE <<"link">>)
                               \o (IF has("url") THEN <<": ", "s", "url">> ELSE <<": (unknown)">>))

\* C5: with any subset of the optional keys of an entry, of a founder, of the
\* open-source record, of a repository or of a source absent, null or empty,
\* render_startup_card does not raise and shows the placeholder of each: no
\* founder section, "No repos listed.", "(unknown)" for a link without URL,
\* "unknown" for stage, team size and core product, no confidence indicator.
C5_MissingShowsPlaceholder ==
    (card.done /\ entry.kind = "missing") =>
        /\ ~card.r.raised
        /\ IF entry.at = "entry" THEN EntryPlaceholders(card.r.out, entry.gone)
           ELSE ItemPlaceholders(card.r.out, entry.at, entry.gone)

\* C5 witness: an entry with no key at all has been rendered
C5_Witness ==
    /\ card.done /\ entry.kind = "missing" /\ entry.at = "entry"
    /\ entry.gone = EntryKeys /\ entry.mode = "absent"
    /\ HasCall(card.r.out, Write(<<"No repos listed.">>))

\* the values handed to st.progress
Progressed(out) == {out[i].a[1] : i \in {j \in 1..Len(out) : out[j].w = "progress"}}

\* v is c clamped into [0, 1], as numbers m * 10^-k
IsClamped(c, v) ==
    /\ v.t = "num" /\ v.m >= 0 /\ v.m <= Pow10(v.k)
    /\ c.m <= 0 => v.m = 0
    /\ c.m >= Pow10(c.k) => v.m = Pow10(v.k)
    /\ (c.m > 0 /\ c.m < Pow10(c.k)) => (v.m = c.m /\ v.k = c.k)

\* the five values of the spec: -0.5, 0.0, 0.73, 1.0, 2.0 give 0.0, 0.0, 0.73, 1.0, 1.0
ClampTable(c, v) ==
    /\ c = PyNum(TRUE, -5, 1) => v = PyNum(TRUE, 0, 0)
    /\ c = PyNum(TRUE, 0, 0) => v = PyNum(TRUE, 0, 0)
    /\ c = PyNum(TRUE, 73, 2) => v = PyNum(TRUE, 73, 2)
    /\ c = PyNum(TRUE, 1, 0) => v = PyNum(TRUE, 1, 0)
    /\ c = PyNum(TRUE, 2, 0) => v = PyNum(TRUE, 1, 0)

\* C9: for an entry whose confidence is a number c, the value handed to the
\* confidence indicator is min(max(c, 0), 1), in [0, 1]; a card rendered to its
\* end hands over exactly one.
C9_ConfidenceClamped ==
    (card.done /\ Get(entry.s, K("confidence")).t = "num") =>
        /\ \A v \in Progressed(card.r.out) :
              /\ IsClamped(Get(entry.s, K("confidence")), v)
              /\ ClampTable(Get(entry.s, K("confidence")), v)
        /\ ~card.r.raised => Cardinality(Progressed(card.r.out)) = 1

\* C9 witness: a confidence of -0.5 has been shown as 0.0
C9_Witness ==
    /\ card.done /\ entry.kind = "conf"
    /\ Get(entry.s, K("confidence")) = PyNum(TRUE, -5, 1)
    /\ Progressed(card.r.out) = {Float0}

\* the fallback token the spec names for each field
FallbackToken(k) ==
    CASE k \in {K("name"), K("headline"), K("skills"), K("interests"), K("values"), K("links")}
            -> "N/A"
      [] k \in {K("sectors"), K("stage"), K("team_size"), K("location"), K("geo")} -> "Any"
      [] k = K("oss_importance") -> "Neutral"
      [] k \in {K("other"), K("exclude")} -> "None"

AllLines == ProfileLines \o PrefsLines

\* the line of the field holds exactly this value
HasLine(p, line, value) == Contains(p, <<line.label>> \o value \o <<LF>>)

ExactlyN(p, n) == Contains(p, <<"exactly ">> \o DigitsOf(n, 1) \o <<" startups.">>)

NoCompanies(p) ==
    Contains(p, <<"- Provided companies to vet (optional):", LF, "  ", "None", LF>>)

\* C8 as stated: build_user_prompt contains "exactly N" and every non-blank
\* value verbatim, and renders each absent, empty or whitespace-only field as
\* its fallback token, "None" for an empty company list.
C8_BlankShowsFallback ==
    (prompt.done /\ form.via = "direct") =>
        /\ ExactlyN(prompt.r, form.top_n)
        /\ ~Truthy(form.provided) => NoCompanies(prompt.r)
        /\ \A i \in 1..Len(AllLines) :
              IF AllLines[i].key \in form.gone
              THEN HasLine(prompt.r, AllLines[i], <<FallbackToken(AllLines[i].key)>>)
              ELSE Contains(prompt.r, Filled(AllLines[i].key, form.padded).s)

\* C8 amended: build_user_prompt contains "exactly N" and every non-empty value
\* verbatim, a whitespace-only one included, and renders each absent, None or
\* empty field as its fallback token, "None" for an empty company list; a
\* whitespace-only text field becomes its fallback token when it comes through
\* main, which strips every text field before the call.
C8_EmptyShowsFallback ==
    prompt.done =>
        /\ ExactlyN(prompt.r, form.top_n)
        /\ (form.via = "direct" /\ ~Truthy(form.provided)) => NoCompanies(prompt.r)
        /\ (form.via = "main" /\ Strip(form.provided.s) = <<>>) => NoCompanies(prompt.r)
        /\ \A i \in 1..Len(AllLines) :
              LET k == AllLines[i].key
              IN  CASE k \notin form.gone /\ form.via = "direct" ->
                          HasLine(prompt.r, AllLines[i], Filled(k, form.padded).s)
                    [] k \notin form.gone /\ form.via = "main" ->
                          Contains(prompt.r, Filled(k, FALSE).s)
                    [] k \in form.gone /\ form.via = "direct" /\ form.mode = "space" ->
                          HasLine(prompt.r, AllLines[i], <<SP, SP>>)
                    [] OTHER ->
                          HasLine(prompt.r, AllLines[i], <<FallbackToken(k)>>)

\* C8 witness: a prompt built from a profile whose fields are whitespace only
C8_Witness ==
    /\ prompt.done /\ form.via = "direct" /\ form.mode = "space"
    /\ form.gone = ProfileKeys
    /\ Contains(prompt.r, <<"  - Name: ", SP, SP, LF>>)
    /\ Contains(prompt.r, <<"  - Geographic Focus: ", "my", SP, "geo", LF>>)

ShowsParseError(page) == HasCall(page, ErrorCall(ParseErrorMessage))
ShowsStructured(page) == HasWidget(page, "success") /\ HasWidget(page, "download_button")

\* C2: when the model call returned text, the raw-text fallback is taken if and
\* only if the normalizer returned None: then the parse error and the original
\* raw text are shown and nothing structured; every decoded document, also the
\* one with no key at all, is rendered and offered for export with no parse error.
C2_FallbackIffParseFailure ==
    \A s \in Sessions :
        (sess[s].data.done /\ sess[s].raw_text.t = "str") =>
            /\ sess[s].data.r = PyNone <=> ShowsParseError(sess[s].page)
            /\ sess[s].data.r = PyNone =>
                  /\ sess[s].page = ShowRaw(sess[s].raw_text)
                  /\ sess[s].pc = "stopped"
            /\ sess[s].data.r \in WellTypedDocs =>
                  /\ ShowsStructured(sess[s].page) /\ ~ShowsParseError(sess[s].page)
                  /\ sess[s].pc = "end"

\* C6: a run in which generate is pressed while no credential is available (the
\* variable unset or empty, no key typed) shows the missing-credential message
\* and stops: no request, nothing parsed or rendered, no other error.
C6_MissingCredentialReported ==
    \A s \in Sessions :
        (RunOver(sess[s]) /\ sess[s].generate /\ ~Truthy(sess[s].user_key)
            /\ ~Truthy(environ.now)) =>
                /\ sess[s].pc = "stopped"
                /\ sess[s].page = <<ErrorCall(MissingKeyMessage)>>
                /\ sess[s].nreq = 0 /\ sess[s].data = NotRun

\* C7: a run sends at most one request; when the request raises, the message of
\* the error is shown and the run ends there: no second request, nothing parsed
\* or rendered, no export.
C7_OneRequestNoRetry ==
    \A s \in Sessions :
        /\ sess[s].nreq <= 1
        /\ sess[s].caught # "none" =>
              /\ sess[s].pc = "stopped" /\ sess[s].nreq = 1
              /\ sess[s].page = <<ErrorCall(<<"OpenAI API error: ", sess[s].caught>>)>>
              /\ sess[s].data = NotRun /\ sess[s].raw_text = PyNone

\* C7 witness: a request has raised
C7_Witness ==
    \E s \in Sessions : sess[s].caught = "RateLimitError" /\ sess[s].nreq = 1

\* C10: with no credential in the environment at the start, a session in which
\* no key was typed never sends a request with the key of another session, and
\* its generate runs end in the missing-credential message.  (A run that ends in
\* the uncaught OpenAIError of get_client is C6's matter and is left out here.)
C10_KeyNotShared ==
    ~Truthy(environ.at_start) =>
        \A s \in Sessions :
            ~sess[s].entered =>
                /\ \A i \in 1..Len(sess[s].sent) :
                      sess[s].sent[i] \notin {KeyOf(o) : o \in Sessions \ {s}}
                /\ (RunOver(sess[s]) /\ sess[s].generate /\ sess[s].pc # "crashed") =>
                      sess[s].page = <<ErrorCall(MissingKeyMessage)>>

=============================================================================
